---- MODULE Spec2Model ----
(***************************************************************************)
(* Model of the object-detection application (App component): the React    *)
(* state, the closures that the video and webcam tick loops run in, the    *)
(* per-frame pipeline (motion estimate, expiry, occlusion test, duplicate  *)
(* match, crop, occlusion append) and the user controls.                   *)
(*                                                                         *)
(* Numbers.  Pixel coordinates are integers.  Scores are in hundredths     *)
(* (0.7 is 70).  Time is in milliseconds.  An IoU is kept as the exact     *)
(* pair <<numerator, denominator>> of the division the code performs.      *)
(***************************************************************************)
EXTENDS Integers, Sequences, FiniteSets, TLC

\* ------------------------------------------------------------------------
\* Bounds of the exploration
\* ------------------------------------------------------------------------
MaxTicks == 3
MaxUploads == 1
MaxActivations == 3
MaxResets == 1
MaxChains == 2

\* ------------------------------------------------------------------------
\* Program constants
\* ------------------------------------------------------------------------
IOU_THRESHOLD == <<3, 10>>
TEMPORAL_THRESHOLD == 10000
CONFIDENCE_THRESHOLD == 10
SCORE_GATE == 60
MASK_RATIO == <<1, 10>>
VIDEO_PADDING == 30
HAVE_CURRENT_DATA == 2
HAVE_ENOUGH_DATA == 4

\* ------------------------------------------------------------------------
\* Small helpers
\* ------------------------------------------------------------------------
Max(a, b) == IF a >= b THEN a ELSE b
Min(a, b) == IF a <= b THEN a ELSE b
Abs(a) == IF a >= 0 THEN a ELSE -a

RECURSIVE Sum(_, _)
Sum(f, n) == IF n = 0 THEN 0 ELSE f[n] + Sum(f, n - 1)

RECURSIVE Concat(_)
Concat(ss) == IF ss = <<>> THEN <<>> ELSE Head(ss) \o Concat(Tail(ss))

MaxOf(S) == CHOOSE m \in S : \A n \in S : m >= n

\* ------------------------------------------------------------------------
\* Detector results: what model.detect can resolve with for one frame
\* ------------------------------------------------------------------------
Det(c, s, x, y, w, h) == [class |-> c, score |-> s, bbox |-> <<x, y, w, h>>]

CatA == Det("cat", 70, 10, 10, 50, 50)
CatA2 == Det("cat", 72, 12, 11, 50, 50)
CatHi == Det("cat", 95, 12, 11, 50, 50)
DogA == Det("dog", 70, 10, 10, 50, 50)
DogFar == Det("dog", 80, 201, 200, 40, 40)
\* A degenerate box: no width and no height.
ZeroBox == Det("cat", 70, 20, 20, 0, 0)

Frames == { <<>>, <<CatA>>, <<CatHi>>, <<DogA>>, <<CatA, CatA2>> }

\* The frames of the scenarios: one cat, the same cat slightly moved with
\* nearly the same and with a much higher score, and a cat next to a
\* degenerate box.
ScenarioFrames == { <<>>, <<CatA>>, <<CatA2>>, <<CatHi>>, <<CatA, ZeroBox>> }

\* A cat far to the right of CatA, and the frames in which the camera
\* moves: the cat is seen at one place or the other.
CatFar == Det("cat", 72, 110, 10, 50, 50)

ShiftFrames == { <<CatA>>, <<CatFar>> }

\* The frames in which a cat is tracked first and a far dog after it.
OrderFrames == { <<CatA>>, <<CatA, DogFar>> }

\* Detections that the score gate stops: a cat whose score is exactly
\* 0.6, and a dog far below it that comes first in its frame.
CatAtGate == Det("cat", 60, 12, 11, 50, 50)
DogLow == Det("dog", 30, 201, 200, 40, 40)

GateFrames == { <<CatA>>, <<CatAtGate>>, <<DogLow, CatA>> }

\* The results used where the whole program is explored.
ControlFrames == { <<CatA, DogFar>>, <<CatA, CatA2>> }

\* ------------------------------------------------------------------------
\* Geometry
\* ------------------------------------------------------------------------
calculateIoUOverSum(box1, box2) ==
    LET x1 == box1[1]  y1 == box1[2]  w1 == box1[3]  h1 == box1[4]
        x2 == box2[1]  y2 == box2[2]  w2 == box2[3]  h2 == box2[4]
        xLeft == Max(x1, x2)
        yTop == Max(y1, y2)
        xRight == Min(x1 + w1, x2 + w2)
        yBottom == Min(y1 + h1, y2 + h2)
        intersectionArea == (xRight - xLeft) * (yBottom - yTop)
    IN  IF xRight < xLeft \/ yBottom < yTop
        THEN <<0, 1>>
        ELSE <<intersectionArea, w1 * h1 + w2 * h2>>

\* calculateIoU: the quotient intersectionArea / unionArea as the pair
\* <<intersectionArea, unionArea>>; the early return 0 is <<0, 1>>.
calculateIoU(box1, box2) ==
    LET x1 == box1[1]  y1 == box1[2]  w1 == box1[3]  h1 == box1[4]
        x2 == box2[1]  y2 == box2[2]  w2 == box2[3]  h2 == box2[4]
        xLeft == Max(x1, x2)
        yTop == Max(y1, y2)
        xRight == Min(x1 + w1, x2 + w2)
        yBottom == Min(y1 + h1, y2 + h2)
        intersectionArea == (xRight - xLeft) * (yBottom - yTop)
        box1Area == w1 * h1
        box2Area == w2 * h2
        unionArea == box1Area + box2Area - intersectionArea
    IN  IF xRight < xLeft \/ yBottom < yTop
        THEN <<0, 1>>
        ELSE <<intersectionArea, unionArea>>

\* q > t for a quotient q = <<n, d>> as JavaScript evaluates it: n/0 is
\* NaN for n = 0 (every comparison false) and +-Infinity otherwise.
QuotientGreater(q, t) ==
    IF q[2] = 0 THEN q[1] > 0
    ELSE IF q[2] > 0 THEN q[1] * t[2] > t[1] * q[2]
    ELSE q[1] * t[2] < t[1] * q[2]

\* The overlap area of the box (x, y, width, height) with a region.
overlapArea(x, y, width, height, region) ==
    LET overlapX == Max(0, Min(x + width, region.x + region.width) - Max(x, region.x))
        overlapY == Max(0, Min(y + height, region.y + region.height) - Max(y, region.y))
    IN  overlapX * overlapY

isMaskedByRegionRatio(x, y, width, height, regions) ==
    \E i \in 1..Len(regions) :
        overlapArea(x, y, width, height, regions[i]) * MASK_RATIO[2]
            > regions[i].width * regions[i].height * MASK_RATIO[1]

\* isMasked: some region covers more than 10% of the box.
isMasked(x, y, width, height, regions) ==
    \E i \in 1..Len(regions) :
        overlapArea(x, y, width, height, regions[i]) * MASK_RATIO[2]
            > width * height * MASK_RATIO[1]

\* ------------------------------------------------------------------------
\* Motion estimate
\* ------------------------------------------------------------------------
currentCentersOf(predictions) ==
    [i \in 1..Len(predictions) |->
        LET b == predictions[i].bbox
        IN  [x |-> b[1] + b[3] \div 2, y |-> b[2] + b[4] \div 2]]

pairedCentersFirstOnly(prev, cur) == 1

pairedCentersOf(prev, cur) == Min(Len(prev), Len(cur))

avgShift(prev, cur) ==
    IF Len(prev) > 0 /\ Len(cur) > 0
    THEN LET n == pairedCentersOf(prev, cur)
             totalShiftX == Sum([i \in 1..n |-> cur[i].x - prev[i].x], n)
             totalShiftY == Sum([i \in 1..n |-> cur[i].y - prev[i].y], n)
         IN  [x |-> totalShiftX \div n, y |-> totalShiftY \div n]
    ELSE [x |-> 0, y |-> 0]

\* ------------------------------------------------------------------------
\* The per-frame pipeline (the part of a tick after the detector call)
\* ------------------------------------------------------------------------
trackedObjectsUnfiltered(tracked, currentTime) == tracked

trackedObjectsKeptAtThreshold(tracked, currentTime) ==
    SelectSeq(tracked, LAMBDA obj : currentTime - obj.lastSeen <= TEMPORAL_THRESHOLD)

\* Clean up old tracked objects.
trackedObjectsFiltered(tracked, currentTime) ==
    SelectSeq(tracked, LAMBDA obj : currentTime - obj.lastSeen < TEMPORAL_THRESHOLD)

matchConditionIouOnly(x, y, width, height, className, score, trackedObj) ==
    /\ trackedObj.className = className
    /\ QuotientGreater(calculateIoU(<<x, y, width, height>>, trackedObj.bbox), IOU_THRESHOLD)

\* The condition of the match loop for one tracked object.
matchCondition(x, y, width, height, className, score, trackedObj) ==
    /\ trackedObj.className = className
    /\ QuotientGreater(calculateIoU(<<x, y, width, height>>, trackedObj.bbox), IOU_THRESHOLD)
    /\ Abs(score - trackedObj.score) < CONFIDENCE_THRESHOLD

\* The match loop: the index of the first tracked object that satisfies the
\* condition (the loop breaks there), 0 when there is none.
matchLoop(x, y, width, height, className, score, filtered) ==
    LET hits == {i \in 1..Len(filtered) :
                    matchCondition(x, y, width, height, className, score, filtered[i])}
    IN  IF hits = {} THEN 0 ELSE CHOOSE i \in hits : \A j \in hits : i <= j

newIdOf(tracked) ==
    IF Len(tracked) > 0
    THEN MaxOf({tracked[i].id : i \in 1..Len(tracked)}) + 1
    ELSE 1

\* The region appended for a new object: padded and clamped on video, the
\* plain box on webcam.
newRegion(kind, x, y, width, height) ==
    IF kind = "video"
    THEN [x |-> Max(0, x - VIDEO_PADDING), y |-> Max(0, y - VIDEO_PADDING),
          width |-> width + 2 * VIDEO_PADDING, height |-> height + 2 * VIDEO_PADDING]
    ELSE [x |-> x, y |-> y, width |-> width, height |-> height]

\* ctx.getImageData(x, y, width, height) throws an IndexSizeError when the
\* width or the height is zero, and cropImage with it.
cropImageThrows(width, height) == width = 0 \/ height = 0

\* cropImage: the crop event, with the arguments it is called with.
cropImage(x, y, width, height, className, score) ==
    [x |-> x, y |-> y, width |-> width, height |-> height,
     className |-> className, score |-> score]

scoreGateAtLeast(score) == score >= SCORE_GATE

\* The score gate of the pipeline.
scoreGate(score) == score > SCORE_GATE

passesGateIgnoringMask(masked, score) == scoreGate(score)

\* if (!isMasked && score > 0.6)
passesGate(masked, score) == ~masked /\ scoreGate(score)

keptCorrected(v, avgShiftV) == v

\* x + avgShiftX, y + avgShiftY: the coordinate of the uncorrected frame,
\* from the corrected one.
uncorrected(v, avgShiftV) == v + avgShiftV

\* The body of predictions.forEach for one prediction.  The result tells
\* what was pushed: obj is what went to updatedTrackedObjects, crop what
\* went to newCroppedObjects, region what setMaskedRegions appended (each
\* a sequence of length 0 or 1); matched is the index of the matched
\* object in the filtered list.
processPrediction(kind, prediction, snap, shift, currentTime) ==
    LET className == prediction.class
        score == prediction.score
        width == prediction.bbox[3]
        height == prediction.bbox[4]
        x == prediction.bbox[1] - shift.x
        y == prediction.bbox[2] - shift.y
        masked == isMasked(x, y, width, height, snap.maskedRegions)
        filtered == trackedObjectsFiltered(snap.trackedObjects, currentTime)
        m == matchLoop(x, y, width, height, className, score, filtered)
        skip == [kind |-> IF masked THEN "masked" ELSE "lowscore", matched |-> 0,
                 box |-> <<x, y, width, height>>,
                 obj |-> <<>>, crop |-> <<>>, region |-> <<>>]
    IN  IF passesGate(masked, score)
        THEN IF m = 0 /\ cropImageThrows(width, height)
             THEN [skip EXCEPT !.kind = "threw"]
             ELSE IF m = 0
             THEN [kind |-> "new", matched |-> 0, box |-> <<x, y, width, height>>,
                   obj |-> << [id |-> newIdOf(snap.trackedObjects),
                               className |-> className,
                               bbox |-> <<x, y, width, height>>,
                               score |-> score,
                               lastSeen |-> currentTime] >>,
                   crop |-> << cropImage(uncorrected(x, shift.x), uncorrected(y, shift.y),
                                         width, height, className, score) >>,
                   region |-> << newRegion(kind, uncorrected(x, shift.x),
                                           uncorrected(y, shift.y), width, height) >>]
             ELSE [kind |-> "duplicate", matched |-> m, box |-> <<x, y, width, height>>,
                   obj |-> << [filtered[m] EXCEPT !.bbox = <<x, y, width, height>>,
                                                  !.score = score,
                                                  !.lastSeen = currentTime] >>,
                   crop |-> <<>>, region |-> <<>>]
        ELSE skip

\* nonMatchedObjects: the filtered objects whose id no updated object has.
nonMatchedObjects(filtered, updated) ==
    SelectSeq(filtered, LAMBDA obj : ~\E i \in 1..Len(updated) : updated[i].id = obj.id)

\* predictions.forEach stops at the prediction for which cropImage throws:
\* the predictions after it are not reached.
reachedOutcomes(each) ==
    [i \in 1..Len(each) |->
        IF \E j \in 1..(i - 1) : each[j].kind = "threw"
        THEN [each[i] EXCEPT !.kind = "unreached", !.matched = 0,
                             !.obj = <<>>, !.crop = <<>>, !.region = <<>>]
        ELSE each[i]]

\* What a tick has computed when forEach has ended with these outcomes.
\* The statements after the loop do not run when cropImage threw.
tickOutcome(filtered, currentCenters, shift, outcomes) ==
    LET updatedTrackedObjects == Concat([i \in 1..Len(outcomes) |-> outcomes[i].obj])
    IN  [previousCenters |-> currentCenters,
         shift |-> shift,
         threw |-> \E i \in 1..Len(outcomes) : outcomes[i].kind = "threw",
         outcomes |-> outcomes,
         trackedObjects |-> nonMatchedObjects(filtered, updatedTrackedObjects)
                                \o updatedTrackedObjects,
         newRegions |-> Concat([i \in 1..Len(outcomes) |-> outcomes[i].region]),
         newCroppedObjects |-> Concat([i \in 1..Len(outcomes) |-> outcomes[i].crop])]

\* One tick's computation from the state its closure holds (snap), the
\* detector's predictions and Date.now().
tickResult(kind, snap, predictions, currentTime) ==
    LET currentCenters == currentCentersOf(predictions)
        shift == avgShift(snap.previousCenters, currentCenters)
    IN  tickOutcome(trackedObjectsFiltered(snap.trackedObjects, currentTime),
                    currentCenters, shift,
                    reachedOutcomes(
                        [i \in 1..Len(predictions) |->
                            processPrediction(kind, predictions[i], snap, shift,
                                              currentTime)]))

\* ------------------------------------------------------------------------
\* State
\* ------------------------------------------------------------------------
VARIABLES
    isLoading,          \* useState(true)
    model,              \* useState(null): "null" or "loaded"
    error,              \* useState(null): "null" or the message
    mode,               \* useState('none')
    webcamError,        \* useState(null)
    croppedObjects,     \* useState([])
    maskedRegions,      \* useState([])
    trackedObjects,     \* useState([])
    previousCenters,    \* useState([])
    video,              \* the <video> element
    onloadeddata,       \* video.onloadeddata: the state its detectFromVideo
                        \* closes over, or NoHandler
    listeners,          \* 'loadeddata' listeners added by the effect, each
                        \* with the state its detectFromVideo closes over
    pendingImages,      \* uploaded images whose onload has not run yet
    pendingMedia,       \* getUserMedia promises not settled yet, each with
                        \* the state its detectFromWebcam closes over
    chains,             \* the tick loops: scheduled callbacks and pending
                        \* detector calls
    now,                \* the latest value Date.now() returned
    budget,             \* the ticks, uploads, activations and resets the
                        \* exploration still allows
    issued,             \* ids given to new objects since the last reset
    last                \* what the latest step did

vars == <<isLoading, model, error, mode, webcamError, croppedObjects,
          maskedRegions, trackedObjects, previousCenters, video, onloadeddata,
          listeners, pendingImages, pendingMedia, chains, now, budget,
          issued, last>>

reactState == <<croppedObjects, maskedRegions, trackedObjects, previousCenters>>

\* The state a detectFromVideo / detectFromWebcam created by the current
\* render closes over (its useCallback dependencies).
Closure(m, masked, tracked, centers) ==
    [model |-> m, maskedRegions |-> masked, trackedObjects |-> tracked,
     previousCenters |-> centers]

currentClosure == Closure(model, maskedRegions, trackedObjects, previousCenters)

NoStep == [op |-> "none"]
NoHandler == [model |-> "none"]

\* The values Date.now() takes, counted from the page load.
Times == {0, TEMPORAL_THRESHOLD - 1, TEMPORAL_THRESHOLD}
ControlTimes == {0, TEMPORAL_THRESHOLD + 1}
ScenarioTimes == {0, TEMPORAL_THRESHOLD + 1}
ShiftTimes == {0}
OrderTimes == {0}
GateTimes == {0}

InitWith(b) ==
    /\ isLoading = TRUE
    /\ model = "null"
    /\ error = "null"
    /\ mode = "none"
    /\ webcamError = "null"
    /\ croppedObjects = <<>>
    /\ maskedRegions = <<>>
    /\ trackedObjects = <<>>
    /\ previousCenters = <<>>
    /\ video = [loading |-> FALSE, loaded |-> FALSE, paused |-> TRUE, ended |-> FALSE]
    /\ onloadeddata = NoHandler
    /\ listeners = <<>>
    /\ pendingImages = 0
    /\ pendingMedia = <<>>
    /\ chains = <<>>
    /\ now = 0
    /\ budget = b
    /\ issued = {}
    /\ last = NoStep

\* ------------------------------------------------------------------------
\* Rendering: the effect on [mode, detectFromVideo]
\* ------------------------------------------------------------------------
\* The effect's cleanup cancels the animation frame its own listener
\* requested, when that frame has not run yet.
afterCleanup(chs) == SelectSeq(chs, LAMBDA c : ~c.cancellable)

\* The effect adds one more 'loadeddata' listener in video mode.
afterEffect(ls, newMode, closure) ==
    IF newMode = "video" THEN Append(ls, closure) ELSE ls

\* A detector call pending when the session is reset belongs to the
\* session before the reset.
markStale(chs) ==
    [i \in 1..Len(chs) |->
        IF chs[i].pc = "awaiting" THEN [chs[i] EXCEPT !.stale = TRUE] ELSE chs[i]]

Remove(seq, i) == SubSeq(seq, 1, i - 1) \o SubSeq(seq, i + 1, Len(seq))

Chain(kind, closure, pc, cancellable) ==
    [kind |-> kind, snap |-> closure, pc |-> pc, stale |-> FALSE,
     cancellable |-> cancellable]

\* ------------------------------------------------------------------------
\* Start-up
\* ------------------------------------------------------------------------
SetupTfLoaded ==
    /\ isLoading
    /\ model' = "loaded"
    /\ isLoading' = FALSE
    /\ last' = NoStep
    /\ UNCHANGED <<pendingImages, error, mode, webcamError, reactState, video, onloadeddata, listeners,
                   pendingMedia, chains, now, budget, issued>>

SetupTfFailed ==
    /\ isLoading
    /\ error' = "Failed to initialize TensorFlow.js"
    /\ isLoading' = FALSE
    /\ last' = NoStep
    /\ UNCHANGED <<pendingImages, model, mode, webcamError, reactState, video, onloadeddata, listeners,
                   pendingMedia, chains, now, budget, issued>>

\* ------------------------------------------------------------------------
\* Session controls
\* ------------------------------------------------------------------------
ClearSession(control) ==
    /\ croppedObjects' = <<>>
    /\ maskedRegions' = <<>>
    /\ trackedObjects' = <<>>
    /\ previousCenters' = <<>>
    /\ issued' = {}
    /\ budget' = [budget EXCEPT ![control] = @ - 1]

\* handleFileUpload with a video file.
HandleFileUploadVideo ==
    /\ ~isLoading
    /\ budget.uploads > 0
    /\ ClearSession("uploads")
    /\ mode' = "video"
    /\ video' = [loading |-> TRUE, loaded |-> FALSE, paused |-> TRUE, ended |-> FALSE]
    /\ chains' = afterCleanup(markStale(chains))
    /\ onloadeddata' = currentClosure
    /\ listeners' = afterEffect(listeners, "video", Closure(model, <<>>, <<>>, <<>>))
    /\ last' = [op |-> "reset"]
    /\ UNCHANGED <<pendingImages, isLoading, model, error, webcamError, pendingMedia, now>>

\* handleWebcamActivation.
HandleWebcamActivation ==
    /\ ~isLoading
    /\ budget.activations > 0
    /\ ClearSession("activations")
    /\ mode' = "webcam"
    /\ pendingMedia' = Append(pendingMedia, currentClosure)
    /\ chains' = afterCleanup(markStale(chains))
    /\ last' = [op |-> "reset"]
    /\ UNCHANGED <<pendingImages, isLoading, model, error, webcamError, video, onloadeddata,
                   listeners, now>>

\* handleReset.
HandleReset ==
    /\ ~isLoading
    /\ budget.resets > 0
    /\ ClearSession("resets")
    /\ mode' = "none"
    /\ webcamError' = "null"
    /\ video' = [loading |-> FALSE, loaded |-> FALSE, paused |-> TRUE, ended |-> FALSE]
    /\ chains' = afterCleanup(markStale(chains))
    /\ last' = [op |-> "reset"]
    /\ UNCHANGED <<pendingImages, isLoading, model, error, onloadeddata, listeners, pendingMedia,
                   now>>

\* handleFileUpload with an image file: the session is cleared and the
\* image starts loading.
HandleFileUploadImage ==
    /\ ~isLoading
    /\ budget.uploads > 0
    /\ ClearSession("uploads")
    /\ mode' = "image"
    /\ pendingImages' = pendingImages + 1
    /\ chains' = afterCleanup(markStale(chains))
    /\ last' = [op |-> "reset"]
    /\ UNCHANGED <<isLoading, model, error, webcamError, video, onloadeddata,
                   listeners, pendingMedia, now>>

\* img.onload and the detector call of the image pipeline: every
\* prediction above the score gate is cropped, and the crops replace the
\* crop history when there is at least one.
ImageDetected(F) ==
    /\ pendingImages > 0
    /\ pendingImages' = pendingImages - 1
    /\ \E predictions \in F :
        LET crops == Concat([i \in 1..Len(predictions) |->
                        IF scoreGate(predictions[i].score)
                        THEN << cropImage(predictions[i].bbox[1], predictions[i].bbox[2],
                                          predictions[i].bbox[3], predictions[i].bbox[4],
                                          predictions[i].class, predictions[i].score) >>
                        ELSE <<>>])
            throws == \E i \in 1..Len(predictions) :
                          /\ scoreGate(predictions[i].score)
                          /\ cropImageThrows(predictions[i].bbox[3],
                                             predictions[i].bbox[4])
        IN  croppedObjects' = IF model = "loaded" /\ ~throws /\ Len(crops) > 0
                              THEN crops ELSE croppedObjects
    /\ last' = NoStep
    /\ UNCHANGED <<isLoading, model, error, mode, webcamError, maskedRegions,
                   trackedObjects, previousCenters, video, onloadeddata, listeners,
                   pendingMedia, chains, now, budget, issued>>

\* handleClearCroppedObjects.
HandleClearCroppedObjects ==
    /\ croppedObjects # <<>>
    /\ croppedObjects' = <<>>
    /\ last' = NoStep
    /\ UNCHANGED <<pendingImages, isLoading, model, error, mode, webcamError, maskedRegions,
                   trackedObjects, previousCenters, video, onloadeddata, listeners,
                   pendingMedia, chains, now, budget, issued>>

\* ------------------------------------------------------------------------
\* The <video> element
\* ------------------------------------------------------------------------
startVideoTickUnguarded(closure, v, readyState) ==
    IF v.paused \/ v.ended \/ readyState < HAVE_CURRENT_DATA THEN <<>>
    ELSE IF readyState = HAVE_ENOUGH_DATA
         THEN << [kind |-> "video", snap |-> closure, pc |-> "awaiting",
                  stale |-> FALSE, cancellable |-> FALSE] >>
         ELSE << [kind |-> "video", snap |-> closure, pc |-> "scheduled",
                  stale |-> FALSE, cancellable |-> FALSE] >>

\* The chain that a direct call of detectFromVideo starts, as a sequence
\* of length 0 or 1: none when a guard returns, pending on the detector
\* with enough data, else rescheduled.
startVideoTick(closure, v, readyState) ==
    IF closure.model # "loaded" THEN <<>>
    ELSE IF v.paused \/ v.ended \/ readyState < HAVE_CURRENT_DATA THEN <<>>
    ELSE IF readyState = HAVE_ENOUGH_DATA
         THEN << Chain("video", closure, "awaiting", FALSE) >>
         ELSE << Chain("video", closure, "scheduled", FALSE) >>

\* 'loadeddata': video.onloadeddata runs first, then every listener the
\* effect has ever added: each plays the video and requests a frame for
\* its own detectFromVideo.
VideoLoadedData ==
    /\ video.loading
    /\ \E readyState \in {HAVE_CURRENT_DATA, HAVE_ENOUGH_DATA} :
        LET direct == IF onloadeddata = NoHandler THEN <<>>
                      ELSE startVideoTick(onloadeddata, video, readyState)
            fromListeners ==
                [i \in 1..Len(listeners) |->
                    Chain("video", listeners[i], "scheduled",
                          i = Len(listeners) /\ mode = "video")]
        IN  /\ chains' = chains \o direct \o fromListeners
            /\ Len(chains') <= MaxChains
    /\ video' = [video EXCEPT !.loading = FALSE, !.loaded = TRUE,
                              !.paused = IF listeners = <<>> THEN @ ELSE FALSE]
    /\ last' = NoStep
    /\ UNCHANGED <<pendingImages, isLoading, model, error, mode, webcamError, reactState,
                   onloadeddata, listeners, pendingMedia, now, budget, issued>>

\* The user pauses or resumes playback with the element's controls.
VideoPause ==
    /\ mode = "video"
    /\ video.loaded /\ ~video.paused
    /\ video' = [video EXCEPT !.paused = TRUE]
    /\ last' = NoStep
    /\ UNCHANGED <<pendingImages, isLoading, model, error, mode, webcamError, reactState,
                   onloadeddata, listeners, pendingMedia, chains, now, budget,
                   issued>>

VideoPlay ==
    /\ mode = "video"
    /\ (video.loaded \/ video.loading) /\ video.paused /\ ~video.ended
    /\ video' = [video EXCEPT !.paused = FALSE]
    /\ last' = NoStep
    /\ UNCHANGED <<pendingImages, isLoading, model, error, mode, webcamError, reactState,
                   onloadeddata, listeners, pendingMedia, chains, now, budget,
                   issued>>

\* Playback reaches the end of the file.
VideoEnded ==
    /\ video.loaded /\ ~video.paused /\ ~video.ended
    /\ video' = [video EXCEPT !.ended = TRUE, !.paused = TRUE]
    /\ last' = NoStep
    /\ UNCHANGED <<pendingImages, isLoading, model, error, mode, webcamError, reactState,
                   onloadeddata, listeners, pendingMedia, chains, now, budget,
                   issued>>

\* ------------------------------------------------------------------------
\* Ticks
\* ------------------------------------------------------------------------
\* The predictions handed to drawRect: those whose raw box no region of
\* the occlusion map that the callback closes over covers by more than 10%.
visiblePredictions(predictions, regions) ==
    SelectSeq(predictions,
              LAMBDA pred : ~isMasked(pred.bbox[1], pred.bbox[2], pred.bbox[3],
                                      pred.bbox[4], regions))

\* What a completed tick leaves in `last`; drawRect holds the argument of
\* the call of drawRect, which is not reached when cropImage threw.
TickStep(c, predictions, currentTime, r) ==
    [op |-> "tick", kind |-> c.kind, snap |-> c.snap, stale |-> c.stale,
     predictions |-> predictions, time |-> currentTime, result |-> r,
     drawRect |-> IF r.threw THEN <<>>
                  ELSE << visiblePredictions(predictions, c.snap.maskedRegions) >>,
     pre |-> [croppedObjects |-> croppedObjects, maskedRegions |-> maskedRegions,
              trackedObjects |-> trackedObjects, previousCenters |-> previousCenters,
              issued |-> issued]]

newIds(r) ==
    {r.outcomes[i].obj[1].id : i \in {j \in 1..Len(r.outcomes) : r.outcomes[j].kind = "new"}}

ApplyTickReplacingRegions(r) ==
    /\ previousCenters' = r.previousCenters
    /\ maskedRegions' = r.newRegions
    /\ trackedObjects' = IF r.threw THEN trackedObjects ELSE r.trackedObjects
    /\ croppedObjects' = IF r.threw THEN croppedObjects
                          ELSE croppedObjects \o r.newCroppedObjects
    /\ issued' = IF r.threw THEN issued ELSE issued \cup newIds(r)
    /\ budget' = [budget EXCEPT !.ticks = @ - 1]

\* The state updates of a tick: setPreviousCenters, setMaskedRegions (one
\* functional update per new object), setTrackedObjects, setCroppedObjects;
\* the last two are not reached when cropImage threw.
ApplyTick(r) ==
    /\ previousCenters' = r.previousCenters
    /\ maskedRegions' = maskedRegions \o r.newRegions
    /\ trackedObjects' = IF r.threw THEN trackedObjects ELSE r.trackedObjects
    /\ croppedObjects' = IF r.threw THEN croppedObjects
                          ELSE croppedObjects \o r.newCroppedObjects
    /\ issued' = IF r.threw THEN issued ELSE issued \cup newIds(r)
    /\ budget' = [budget EXCEPT !.ticks = @ - 1]

\* The frame callback of a video loop: detectFromVideo up to the detector
\* call.
VideoTickStart(i) ==
    /\ chains[i].kind = "video" /\ chains[i].pc = "scheduled"
    /\ \E readyState \in {HAVE_CURRENT_DATA, HAVE_ENOUGH_DATA} :
        LET next == startVideoTick(chains[i].snap,
                                   video, IF video.loaded THEN readyState ELSE 0)
        IN  chains' = SubSeq(chains, 1, i - 1) \o next \o SubSeq(chains, i + 1, Len(chains))
    /\ last' = NoStep
    /\ UNCHANGED <<isLoading, model, error, mode, webcamError, reactState, video,
                   onloadeddata, listeners, pendingImages, pendingMedia, now, budget,
                   issued>>

\* The detector call of a video tick resolves: the rest of detectFromVideo
\* (the catch block when cropImage throws), then the next frame is
\* requested and React renders.
VideoTickDone(i, F, T) ==
    /\ chains[i].kind = "video" /\ chains[i].pc = "awaiting"
    /\ budget.ticks > 0
    /\ \E predictions \in F, currentTime \in {t \in T : t >= now} :
        LET r == tickResult("video", chains[i].snap, predictions, currentTime)
        IN  /\ now' = currentTime
            /\ ApplyTick(r)
            /\ last' = TickStep(chains[i], predictions, currentTime, r)
            /\ listeners' = afterEffect(listeners, mode,
                                Closure(model, maskedRegions', trackedObjects',
                                        previousCenters'))
    /\ chains' = afterCleanup([chains EXCEPT ![i].pc = "scheduled", ![i].stale = FALSE])
    /\ UNCHANGED <<isLoading, model, error, mode, webcamError, video, onloadeddata,
                   pendingImages, pendingMedia>>

\* The detector call of a video tick rejects: the catch block logs and the
\* next frame is requested.
VideoTickFailed(i) ==
    /\ chains[i].kind = "video" /\ chains[i].pc = "awaiting"
    /\ chains' = [chains EXCEPT ![i].pc = "scheduled", ![i].stale = FALSE]
    /\ last' = NoStep
    /\ UNCHANGED <<isLoading, model, error, mode, webcamError, reactState, video,
                   onloadeddata, listeners, pendingImages, pendingMedia, now, budget,
                   issued>>

\* The chain that a call of detectFromWebcam starts (length 0 or 1).
startWebcamTick(closure, m, ready) ==
    IF closure.model # "loaded" \/ m # "webcam" THEN <<>>
    ELSE IF ready
         THEN << Chain("webcam", closure, "awaiting", FALSE) >>
         ELSE << Chain("webcam", closure, "scheduled", FALSE) >>

\* getUserMedia resolves: detectFromWebcam of the render that handled the
\* click is called.
GetUserMediaResolved(k) ==
    /\ k \in 1..Len(pendingMedia)
    /\ Len(chains) < MaxChains
    /\ pendingMedia' = Remove(pendingMedia, k)
    /\ webcamError' = "null"
    /\ \E ready \in BOOLEAN :
        chains' = chains \o startWebcamTick(pendingMedia[k], mode, ready)
    /\ last' = NoStep
    /\ UNCHANGED <<isLoading, model, error, mode, reactState, video, onloadeddata,
                   listeners, pendingImages, now, budget, issued>>

GetUserMediaRejected(k) ==
    /\ k \in 1..Len(pendingMedia)
    /\ pendingMedia' = Remove(pendingMedia, k)
    /\ webcamError' = "Webcam access denied or not available."
    /\ last' = NoStep
    /\ UNCHANGED <<isLoading, model, error, mode, reactState, video, onloadeddata,
                   listeners, pendingImages, chains, now, budget, issued>>

\* The timer and frame callback of a webcam loop: detectFromWebcam up to
\* the detector call.
WebcamTickStart(i) ==
    /\ chains[i].kind = "webcam" /\ chains[i].pc = "scheduled"
    /\ \E ready \in BOOLEAN :
        chains' = SubSeq(chains, 1, i - 1)
                    \o startWebcamTick(chains[i].snap, mode, ready)
                    \o SubSeq(chains, i + 1, Len(chains))
    /\ last' = NoStep
    /\ UNCHANGED <<isLoading, model, error, mode, webcamError, reactState, video,
                   onloadeddata, listeners, pendingImages, pendingMedia, now, budget,
                   issued>>

\* The detector call of a webcam tick resolves: the rest of
\* detectFromWebcam.  Nothing catches what cropImage throws: the loop is
\* then not rescheduled.
WebcamTickDone(i, F, T) ==
    /\ chains[i].kind = "webcam" /\ chains[i].pc = "awaiting"
    /\ budget.ticks > 0
    /\ \E predictions \in F, currentTime \in {t \in T : t >= now} :
        LET r == tickResult("webcam", chains[i].snap, predictions, currentTime)
        IN  /\ now' = currentTime
            /\ ApplyTick(r)
            /\ last' = TickStep(chains[i], predictions, currentTime, r)
            /\ listeners' = afterEffect(listeners, mode,
                                Closure(model, maskedRegions', trackedObjects',
                                        previousCenters'))
            /\ chains' = afterCleanup(
                             IF r.threw THEN Remove(chains, i)
                             ELSE [chains EXCEPT ![i].pc = "scheduled",
                                                 ![i].stale = FALSE])
    /\ UNCHANGED <<isLoading, model, error, mode, webcamError, video, onloadeddata,
                   pendingImages, pendingMedia>>

\* The detector call of a webcam tick rejects: nothing catches it and
\* nothing is scheduled.
WebcamTickFailed(i) ==
    /\ chains[i].kind = "webcam" /\ chains[i].pc = "awaiting"
    /\ chains' = Remove(chains, i)
    /\ last' = NoStep
    /\ UNCHANGED <<isLoading, model, error, mode, webcamError, reactState, video,
                   onloadeddata, listeners, pendingImages, pendingMedia, now, budget,
                   issued>>

\* Every step of the program, with the detector's results drawn from F
\* and the clock's values from T.
NextOn(F, T) ==
    \/ SetupTfLoaded
    \/ SetupTfFailed
    \/ HandleFileUploadVideo
    \/ HandleFileUploadImage
    \/ ImageDetected(F)
    \/ HandleWebcamActivation
    \/ HandleReset
    \/ HandleClearCroppedObjects
    \/ VideoLoadedData
    \/ VideoPause
    \/ VideoPlay
    \/ VideoEnded
    \/ \E i \in 1..Len(chains) : VideoTickStart(i)
    \/ \E i \in 1..Len(chains) : VideoTickDone(i, F, T)
    \/ \E i \in 1..Len(chains) : VideoTickFailed(i)
    \/ \E k \in 1..Len(pendingMedia) : GetUserMediaResolved(k)
    \/ \E k \in 1..Len(pendingMedia) : GetUserMediaRejected(k)
    \/ \E i \in 1..Len(chains) : WebcamTickStart(i)
    \/ \E i \in 1..Len(chains) : WebcamTickDone(i, F, T)
    \/ \E i \in 1..Len(chains) : WebcamTickFailed(i)

Budget(t, u, a, r) == [ticks |-> t, uploads |-> u, activations |-> a, resets |-> r]

\* The whole program.
Init == InitWith(Budget(MaxTicks - 1, MaxUploads, MaxActivations - 1, MaxResets))

Next == NextOn(ControlFrames, ControlTimes)

Spec == Init /\ [][Next]_vars

\* The webcam pipeline alone, explored deeper.
InitWebcam == InitWith(Budget(MaxTicks, 0, MaxActivations, 0))

NextWebcamOn(F, T) ==
    \/ SetupTfLoaded
    \/ HandleWebcamActivation
    \/ \E k \in 1..Len(pendingMedia) : GetUserMediaResolved(k)
    \/ \E i \in 1..Len(chains) : WebcamTickStart(i)
    \/ \E i \in 1..Len(chains) : WebcamTickDone(i, F, T)
    \/ \E i \in 1..Len(chains) : WebcamTickFailed(i)

SpecWebcam == InitWebcam /\ [][NextWebcamOn(Frames, Times)]_vars

\* The webcam pipeline on the frames of the scenarios.
InitScenario == InitWith(Budget(MaxTicks, 0, MaxActivations - 1, 0))

SpecScenario == InitScenario /\ [][NextWebcamOn(ScenarioFrames, ScenarioTimes)]_vars

\* The webcam pipeline on the frames that fill the tracker with two
\* objects.
SpecOrder == InitWebcam /\ [][NextWebcamOn(OrderFrames, OrderTimes)]_vars

\* The whole program on the frames with scores at and below the gate.
SpecGate == Init /\ [][NextOn(GateFrames, GateTimes)]_vars

\* The video pipeline alone: one upload, playback and the tick loop.  The
\* browser runs every requested animation frame, the file loads and the
\* detector's promise settles; what the user does is not forced.
InitPlayback == InitWith(Budget(MaxTicks - 1, MaxUploads, 0, 0))

NextPlaybackOn(F, T) ==
    \/ SetupTfLoaded
    \/ HandleFileUploadVideo
    \/ VideoLoadedData
    \/ VideoPause
    \/ VideoPlay
    \/ VideoEnded
    \/ \E i \in 1..Len(chains) : VideoTickStart(i)
    \/ \E i \in 1..Len(chains) : VideoTickDone(i, F, T)
    \/ \E i \in 1..Len(chains) : VideoTickFailed(i)

FairPlaybackOn(F, T) ==
    /\ WF_vars(VideoLoadedData)
    /\ WF_vars(\E i \in 1..Len(chains) : VideoTickStart(i))
    /\ WF_vars(\E i \in 1..Len(chains) : VideoTickDone(i, F, T) \/ VideoTickFailed(i))

SpecPlayback ==
    /\ InitPlayback
    /\ [][NextPlaybackOn(ControlFrames, ControlTimes)]_vars
    /\ FairPlaybackOn(ControlFrames, ControlTimes)

\* The whole program on the frames of a moving camera, one tick deeper.
InitShift == InitWith(Budget(MaxTicks, MaxUploads, MaxActivations - 1, MaxResets))

SpecShift == InitShift /\ [][NextOn(ShiftFrames, ShiftTimes)]_vars

\* ------------------------------------------------------------------------
\* The pure functions, called on their own
\* ------------------------------------------------------------------------
\* The mask-only pipeline (src/src/App.js) has the same occlusion test with
\* a threshold of 30%.
MASK_RATIO_MASK_ONLY == <<3, 10>>

isMaskedMaskOnly(x, y, width, height, regions) ==
    \E i \in 1..Len(regions) :
        overlapArea(x, y, width, height, regions[i]) * MASK_RATIO_MASK_ONLY[2]
            > width * height * MASK_RATIO_MASK_ONLY[1]

\* Boxes [x, y, width, height]: overlapping, contained, touching along an
\* edge and at a corner, apart, and without width or height.
Boxes ==
    { <<10, 10, 50, 50>>, <<12, 11, 50, 50>>, <<20, 20, 10, 10>>,
      <<60, 10, 20, 20>>, <<60, 60, 10, 10>>, <<200, 200, 40, 40>>,
      <<0, 0, 100, 100>>, <<20, 20, 0, 0>>, <<20, 20, 0, 10>>,
      <<20, 25, 0, 10>>, <<15, 25, 10, 0>> }

\* Regions of the occlusion map: the boxes above, and boxes that cover
\* exactly 10%, 20% and exactly 30% of the box (10, 10, 50, 50).
Region(box) == [x |-> box[1], y |-> box[2], width |-> box[3], height |-> box[4]]

RegionLists ==
    { <<>> }
        \cup { << Region(b) >> : b \in Boxes }
        \cup { << Region(<<200, 200, 40, 40>>), Region(b) >> :
                 b \in { <<55, 10, 50, 50>>, <<50, 10, 50, 50>>, <<45, 10, 50, 50>>,
                         <<20, 20, 10, 10>> } }

\* Lists of centers.  The coordinates are even and the lists have at most
\* two entries, so that every average is an integer.
Centers == { [x |-> 36, y |-> 36], [x |-> 38, y |-> 40], [x |-> 220, y |-> 220] }

CenterLists ==
    { <<>> } \cup { <<c>> : c \in Centers } \cup { <<c, d>> : c, d \in Centers }

\* Tracked objects by the time they were last seen, and the values of
\* Date.now() at which the tracker is cleaned up: ages of exactly the
\* temporal threshold, one millisecond less and one more occur together.
TrackedObj(id, lastSeen) ==
    [id |-> id, className |-> "cat", bbox |-> <<10, 10, 50, 50>>, score |-> 70,
     lastSeen |-> lastSeen]

LastSeens == {0, 1, 2, TEMPORAL_THRESHOLD}

TrackedLists ==
    { <<>> } \cup { << TrackedObj(1, a) >> : a \in LastSeens }
        \cup { << TrackedObj(1, a), TrackedObj(2, b) >> : a, b \in LastSeens }

ExpiryTimes == {TEMPORAL_THRESHOLD, TEMPORAL_THRESHOLD + 1, 2 * TEMPORAL_THRESHOLD}

\* A call of one of the functions with its arguments.
FunctionCalls ==
    { [op |-> "call", fn |-> "calculateIoU", box1 |-> a, box2 |-> b] : a, b \in Boxes }
        \cup { [op |-> "call", fn |-> fn, box |-> b, regions |-> rs] :
                 fn \in {"isMasked", "isMaskedMaskOnly"}, b \in Boxes, rs \in RegionLists }
        \cup { [op |-> "call", fn |-> "avgShift", prev |-> p, cur |-> c] :
                 p, c \in CenterLists }
        \cup { [op |-> "call", fn |-> "trackedObjectsFiltered", tracked |-> t,
                  currentTime |-> n] : t \in TrackedLists, n \in ExpiryTimes }

InitFunctions ==
    /\ isLoading = TRUE
    /\ model = "null"
    /\ error = "null"
    /\ mode = "none"
    /\ webcamError = "null"
    /\ croppedObjects = <<>>
    /\ maskedRegions = <<>>
    /\ trackedObjects = <<>>
    /\ previousCenters = <<>>
    /\ video = [loading |-> FALSE, loaded |-> FALSE, paused |-> TRUE, ended |-> FALSE]
    /\ onloadeddata = NoHandler
    /\ listeners = <<>>
    /\ pendingImages = 0
    /\ pendingMedia = <<>>
    /\ chains = <<>>
    /\ now = 0
    /\ budget = Budget(0, 0, 0, 0)
    /\ issued = {}
    /\ last \in FunctionCalls

Called(fn) == last.op = "call" /\ last.fn = fn
Returned(fn) == last.op = "return" /\ last.fn = fn

Returns(value) ==
    /\ last' = [last EXCEPT !.op = "return"] @@ [value |-> value]
    /\ UNCHANGED <<isLoading, model, error, mode, webcamError, reactState, video,
                   onloadeddata, listeners, pendingImages, pendingMedia, chains, now,
                   budget, issued>>

CalculateIoUCall ==
    /\ Called("calculateIoU")
    /\ Returns(calculateIoU(last.box1, last.box2))

IsMaskedCall ==
    /\ Called("isMasked")
    /\ Returns(isMasked(last.box[1], last.box[2], last.box[3], last.box[4],
                        last.regions))

IsMaskedMaskOnlyCall ==
    /\ Called("isMaskedMaskOnly")
    /\ Returns(isMaskedMaskOnly(last.box[1], last.box[2], last.box[3], last.box[4],
                                last.regions))

AvgShiftCall ==
    /\ Called("avgShift")
    /\ Returns(avgShift(last.prev, last.cur))

TrackedObjectsFilteredCall ==
    /\ Called("trackedObjectsFiltered")
    /\ Returns(trackedObjectsFiltered(last.tracked, last.currentTime))

NextFunctions ==
    \/ CalculateIoUCall
    \/ IsMaskedCall
    \/ IsMaskedMaskOnlyCall
    \/ AvgShiftCall
    \/ TrackedObjectsFilteredCall

SpecFunctions == InitFunctions /\ [][NextFunctions]_vars

\* ------------------------------------------------------------------------
\* Properties
\* ------------------------------------------------------------------------
LastTick == last.op = "tick"

\* The frames are chosen so that every division of the motion estimate is
\* exact, as the integer model of the coordinates needs.
ShiftExact ==
    LastTick =>
        LET prev == last.snap.previousCenters
            cur == last.result.previousCenters
            n == pairedCentersOf(prev, cur)
        IN  n > 0 =>
               /\ Sum([i \in 1..n |-> cur[i].x - prev[i].x], n) % n = 0
               /\ Sum([i \in 1..n |-> cur[i].y - prev[i].y], n) % n = 0

\* What the last tick worked with.
Predictions == last.predictions
Outcomes == last.result.outcomes
Dets == 1..Len(last.predictions)
\* The motion-corrected box of detection i.
Box(i) == Outcomes[i].box
\* The tracker and the occlusion map the tick read.
LiveTracked == trackedObjectsFiltered(last.snap.trackedObjects, last.time)
ReadRegions == last.snap.maskedRegions

Covers(region, box) ==
    overlapArea(box[1], box[2], box[3], box[4], region) * MASK_RATIO[2]
        > box[3] * box[4] * MASK_RATIO[1]

IouAbove(box, obj) == QuotientGreater(calculateIoU(box, obj.bbox), IOU_THRESHOLD)

Count(P(_), S) == Cardinality({x \in S : P(x)})

\* C1: the tracked-object list never contains two entries with the same id.
C1_UniqueIds ==
    \A i, j \in 1..Len(trackedObjects) :
        i # j => trackedObjects[i].id # trackedObjects[j].id

\* C2: no detection is double-counted: a box confirmed New occludes its
\* region from that moment on, so a later detection of the same tick that
\* this region covers above the threshold, and every detection that a
\* region of the occlusion map covers when its tick completes, is dropped
\* and neither tracked nor cropped.
C2_NoDoubleCount ==
    LastTick =>
        \A j \in Dets :
            LET earlier == Concat([i \in 1..(j - 1) |-> Outcomes[i].region])
                map == last.pre.maskedRegions \o earlier
            IN  (\E k \in 1..Len(map) : Covers(map[k], Box(j)))
                    => /\ Outcomes[j].obj = <<>>
                       /\ Outcomes[j].crop = <<>>

\* C3: at most one tick is in flight at any time.
C3_OneTickInFlight ==
    Cardinality({i \in 1..Len(chains) : chains[i].pc = "awaiting"}) <= 1

\* C4: a tick whose detector call was in flight when the session was reset
\* is discarded: completing it leaves tracked objects, occlusion regions,
\* previousCenters and crop history as they were.
C4_StaleTickDiscarded ==
    (LastTick /\ last.stale) =>
        /\ trackedObjects = last.pre.trackedObjects
        /\ maskedRegions = last.pre.maskedRegions
        /\ previousCenters = last.pre.previousCenters
        /\ croppedObjects = last.pre.croppedObjects

\* C5: within one session every id given to a newly confirmed object is
\* strictly greater than every id given earlier in the session.
C5_IdsIncrease ==
    LastTick =>
        \A j \in Dets :
            Outcomes[j].kind = "new" =>
                /\ \A id \in last.pre.issued : Outcomes[j].obj[1].id > id
                /\ \A i \in 1..(j - 1) :
                       Outcomes[i].kind = "new"
                           => Outcomes[j].obj[1].id > Outcomes[i].obj[1].id

\* C6: in any tick, a detection whose motion-corrected box is covered above
\* the threshold by a region of the occlusion map the tick tests against is
\* dropped silently: no crop event, no new tracked object, no refresh and
\* no new occlusion region; the tick's crops, regions and new or refreshed
\* tracked objects are at most as many as its detections that are not
\* covered.
Occluded(i) == \E k \in 1..Len(ReadRegions) : Covers(ReadRegions[k], Box(i))
NotOccluded(i) == ~Occluded(i)

IsNew(i) == Outcomes[i].kind = "new"
IsDuplicate(i) == Outcomes[i].kind = "duplicate"

C7_MatchRefreshes ==
    LastTick =>
        /\ \A i \in Dets :
               IsDuplicate(i) =>
                   LET id == LiveTracked[Outcomes[i].matched].id
                       held == {k \in 1..Len(trackedObjects) : trackedObjects[k].id = id}
                   IN  /\ Cardinality(held) = 1
                       /\ \A k \in held :
                              /\ trackedObjects[k].bbox = Box(i)
                              /\ trackedObjects[k].score = Predictions[i].score
                              /\ trackedObjects[k].lastSeen = last.time
                       /\ Outcomes[i].crop = <<>>
                       /\ Outcomes[i].region = <<>>
        /\ (\E i \in Dets : IsDuplicate(i))
               => Len(trackedObjects) = Len(LiveTracked) + Count(IsNew, Dets)

\* C8: duplicate classification needs both conditions.  A non-occluded
\* detection above the score gate that overlaps a same-class tracked
\* object with IoU > 0.3 but differs from it in score by 0.1 or more, and
\* qualifies against no tracked object, is classified New: it is cropped
\* and tracked.  A detection is never a duplicate of an object of another
\* class, nor of one it fails either condition against.
Qualifies(i, obj) ==
    /\ obj.className = Predictions[i].class
    /\ IouAbove(Box(i), obj)
    /\ Abs(Predictions[i].score - obj.score) < CONFIDENCE_THRESHOLD

OverlapOnly(i, obj) ==
    /\ obj.className = Predictions[i].class
    /\ IouAbove(Box(i), obj)
    /\ Abs(Predictions[i].score - obj.score) >= CONFIDENCE_THRESHOLD

Considered(i) == NotOccluded(i) /\ scoreGate(Predictions[i].score)

Tracks(i) ==
    \E k \in 1..Len(trackedObjects) :
        /\ trackedObjects[k].bbox = Box(i)
        /\ trackedObjects[k].score = Predictions[i].score
        /\ trackedObjects[k].className = Predictions[i].class
        /\ trackedObjects[k].lastSeen = last.time

C8_BothConditions ==
    LastTick =>
        \A i \in Dets :
            /\ ( /\ Considered(i)
                 /\ \E m \in 1..Len(LiveTracked) : OverlapOnly(i, LiveTracked[m])
                 /\ \A m \in 1..Len(LiveTracked) : ~Qualifies(i, LiveTracked[m]) )
                   => /\ IsNew(i)
                      /\ Len(Outcomes[i].crop) = 1
                      /\ Tracks(i)
                      /\ Len(croppedObjects) > Len(last.pre.croppedObjects)
            /\ IsDuplicate(i) => Qualifies(i, LiveTracked[Outcomes[i].matched])

C8_Witness ==
    /\ LastTick
    /\ \E i \in Dets :
           /\ Considered(i)
           /\ \E m \in 1..Len(LiveTracked) : OverlapOnly(i, LiveTracked[m])
           /\ \A m \in 1..Len(LiveTracked) : ~Qualifies(i, LiveTracked[m])
           /\ IsNew(i)

\* C9: each detection changes at most one tracked object: when several live
\* tracked objects qualify for it, only the first in tracker order is
\* refreshed, and every other one that no detection of the tick matched is
\* still in the tracker, unchanged.
MatchedBySome(m) == \E i \in Dets : IsDuplicate(i) /\ Outcomes[i].matched = m

C9_FirstMatchOnly ==
    LastTick =>
        \A i \in Dets :
            IsDuplicate(i) =>
                \A m \in 1..Len(LiveTracked) :
                    Qualifies(i, LiveTracked[m]) =>
                        /\ Outcomes[i].matched <= m
                        /\ ~MatchedBySome(m)
                               => \E k \in 1..Len(trackedObjects) :
                                      trackedObjects[k] = LiveTracked[m]

Held == last.snap.trackedObjects
Expired(obj) == last.time - obj.lastSeen >= TEMPORAL_THRESHOLD

QualifiesOnlyExpired(i) ==
    /\ Considered(i)
    /\ \E m \in 1..Len(Held) : Qualifies(i, Held[m])
    /\ \A m \in 1..Len(Held) : Qualifies(i, Held[m]) => Expired(Held[m])

C11_ExpiryBeforeMatch ==
    LastTick =>
        \A i \in Dets :
            /\ IsDuplicate(i) =>
                   \E m \in 1..Len(Held) :
                       /\ ~Expired(Held[m])
                       /\ Qualifies(i, Held[m])
                       /\ Outcomes[i].obj[1].id = Held[m].id
            /\ QualifiesOnlyExpired(i) =>
                   /\ IsNew(i)
                   /\ Len(Outcomes[i].crop) = 1
                   /\ Tracks(i)

C11_Witness ==
    /\ LastTick
    /\ \E i \in Dets : QualifiesOnlyExpired(i) /\ IsNew(i)

\* C12: a session reset clears tracked objects, occlusion regions,
\* previousCenters and crop history together: right after a reset all four
\* are empty, and no later state has an occlusion map that is still empty
\* since the reset next to a tracker that holds an object from before the
\* reset (one whose id was not given since the reset).
FromBeforeReset(obj) == obj.id \notin issued

Awaiting == {i \in 1..Len(chains) : chains[i].pc = "awaiting"}
Scheduled == {i \in 1..Len(chains) : chains[i].pc = "scheduled"}

\* A pending detector call ends without a completed tick.
DetectorCallFailed ==
    /\ Cardinality(Awaiting') < Cardinality(Awaiting)
    /\ last'.op # "tick"

C13_FailedFrameKeepsStream ==
    [][DetectorCallFailed =>
          /\ UNCHANGED reactState
          /\ Len(chains') = Len(chains)
          /\ Cardinality(Scheduled') = Cardinality(Scheduled) + 1]_vars

\* C14: a detection with a zero-area box is a no-op for that entry only.
\* It causes no crop, no tracked object and no occlusion region and raises
\* no error; the tracker, the occlusion map and the crop history after the
\* tick are those the tick gives without it (whenever leaving it out does
\* not change the motion estimate), and the loop is scheduled again.
Degenerate(i) == Predictions[i].bbox[3] = 0 \/ Predictions[i].bbox[4] = 0

WithoutDegenerate ==
    SelectSeq(Predictions, LAMBDA p : p.bbox[3] # 0 /\ p.bbox[4] # 0)

ExpectedWithout ==
    tickResult(last.kind, last.snap, WithoutDegenerate, last.time)

C14_DegenerateIsNoOp ==
    (LastTick /\ \E i \in Dets : Degenerate(i)) =>
        /\ \A i \in Dets :
               Degenerate(i) => /\ Outcomes[i].crop = <<>>
                                /\ Outcomes[i].obj = <<>>
                                /\ Outcomes[i].region = <<>>
        /\ ~last.result.threw
        /\ ExpectedWithout.shift = last.result.shift =>
               /\ trackedObjects = ExpectedWithout.trackedObjects
               /\ maskedRegions = last.pre.maskedRegions \o ExpectedWithout.newRegions
               /\ croppedObjects
                      = last.pre.croppedObjects \o ExpectedWithout.newCroppedObjects
        /\ \E c \in 1..Len(chains) :
               /\ chains[c].kind = last.kind
               /\ chains[c].snap = last.snap
               /\ chains[c].pc = "scheduled"

\* C15: if the detector model fails to initialize, the error is surfaced
\* and no tick loop ever starts: whatever the user does afterwards, no
\* detector call is pending, no loop holds a model to run a tick with, no
\* tick completes and the session state stays empty.
C15_NoModelNoTicks ==
    (~isLoading /\ model # "loaded") =>
        /\ error # "null"
        /\ Awaiting = {}
        /\ \A i \in 1..Len(chains) : chains[i].snap.model # "loaded"
        /\ ~LastTick
        /\ trackedObjects = <<>>
        /\ maskedRegions = <<>>
        /\ previousCenters = <<>>
        /\ croppedObjects = <<>>

\* A video was uploaded, loaded and started, and the webcam was then
\* activated and granted, all without a model.
C15_Witness ==
    /\ error # "null"
    /\ video.loaded /\ ~video.paused
    /\ mode = "webcam" /\ pendingMedia = <<>> /\ webcamError = "null"

\* C16: when the frame source is unavailable (the camera was denied, or
\* the video has ended) the error is reported and no tick runs for that
\* session afterwards: as long as the denial is shown in webcam mode with no
\* permission request pending, or the video of the session has ended, no
\* detector call is started.
CameraDenied == mode = "webcam" /\ webcamError # "null" /\ pendingMedia = <<>>
VideoOver == mode = "video" /\ video.ended
SourceUnavailable == CameraDenied \/ VideoOver

C16_NoTickWithoutSource ==
    [][(SourceUnavailable /\ SourceUnavailable')
          => Cardinality(Awaiting') <= Cardinality(Awaiting)]_vars

\* The scenarios of one cat seen in consecutive frames.
NearBox(region, bbox) ==
    /\ bbox[1] - VIDEO_PADDING <= region.x /\ region.x <= bbox[1]
    /\ bbox[2] - VIDEO_PADDING <= region.y /\ region.y <= bbox[2]
    /\ bbox[3] <= region.width /\ region.width <= bbox[3] + 2 * VIDEO_PADDING
    /\ bbox[4] <= region.height /\ region.height <= bbox[4] + 2 * VIDEO_PADDING

EmptySessionBefore ==
    /\ last.pre.trackedObjects = <<>>
    /\ last.pre.maskedRegions = <<>>
    /\ last.pre.previousCenters = <<>>
    /\ last.pre.croppedObjects = <<>>

\* The state frame 1 leaves: the cat tracked with id 1 and its region.
FrameOneStateBefore ==
    /\ Len(last.pre.trackedObjects) = 1
    /\ last.pre.trackedObjects[1].id = 1
    /\ last.pre.trackedObjects[1].className = CatA.class
    /\ last.pre.trackedObjects[1].bbox = CatA.bbox
    /\ last.pre.trackedObjects[1].score = CatA.score
    /\ Len(last.pre.maskedRegions) = 1
    /\ NearBox(last.pre.maskedRegions[1], CatA.bbox)

AgeBefore == last.time - last.pre.trackedObjects[1].lastSeen

\* C17: from an empty session state, a tick with the single detection
\* cat / 0.7 / (10,10,50,50) yields exactly one crop event, exactly one
\* tracked object, with id 1, and exactly one occlusion region, equal to
\* that box up to padding.
C17_FrameOne ==
    (LastTick /\ EmptySessionBefore /\ Predictions = <<CatA>>) =>
        /\ Len(croppedObjects) = 1
        /\ croppedObjects[1].className = CatA.class
        /\ <<croppedObjects[1].x, croppedObjects[1].y,
              croppedObjects[1].width, croppedObjects[1].height>> = CatA.bbox
        /\ Len(trackedObjects) = 1
        /\ trackedObjects[1].id = 1
        /\ trackedObjects[1].bbox = CatA.bbox
        /\ Len(maskedRegions) = 1
        /\ NearBox(maskedRegions[1], CatA.bbox)

\* C18: in the state left by frame 1, a tick with the single detection
\* cat / 0.72 / (12,11,50,50) is classified Duplicate: no new crop event,
\* tracked object id 1 is refreshed (bbox, score and lastSeen updated) and
\* the tracker still holds exactly one object.
C18_FrameTwoDuplicate ==
    (LastTick /\ FrameOneStateBefore /\ Predictions = <<CatA2>>
        /\ AgeBefore < TEMPORAL_THRESHOLD) =>
        /\ IsDuplicate(1)
        /\ croppedObjects = last.pre.croppedObjects
        /\ Len(trackedObjects) = 1
        /\ trackedObjects[1].id = 1
        /\ trackedObjects[1].bbox = Box(1)
        /\ trackedObjects[1].score = CatA2.score
        /\ trackedObjects[1].lastSeen = last.time

\* C19: in the state left by frame 1, a tick with the single detection
\* cat / 0.95 / (12,11,50,50) is classified New despite the high IoU: a
\* second crop event is emitted and a second tracked object with id 2
\* exists next to id 1.
C19_FrameTwoDiverging ==
    (LastTick /\ FrameOneStateBefore /\ Predictions = <<CatHi>>
        /\ AgeBefore < TEMPORAL_THRESHOLD) =>
        /\ IsNew(1)
        /\ Len(croppedObjects) = Len(last.pre.croppedObjects) + 1
        /\ Len(trackedObjects) = 2
        /\ \E k \in 1..2 : trackedObjects[k] = last.pre.trackedObjects[1]
        /\ \E k \in 1..2 : /\ trackedObjects[k].id = 2
                            /\ trackedObjects[k].score = CatHi.score

\* C20: when more than the temporal threshold has passed since the tracked
\* cat was last seen, the next tick removes it, and a detection identical
\* to the original one (class, score and bbox) is classified New again: a
\* new crop event and a new tracked object.
C20_RedetectAfterExpiry ==
    (LastTick /\ FrameOneStateBefore /\ Predictions = <<CatA>>
        /\ AgeBefore > TEMPORAL_THRESHOLD) =>
        /\ IsNew(1)
        /\ Len(croppedObjects) = Len(last.pre.croppedObjects) + 1
        /\ Len(trackedObjects) = 1
        /\ trackedObjects[1].lastSeen = last.time
        /\ trackedObjects[1].bbox = Box(1)

\* C21: for two consecutive ticks of one session, the previous centers
\* that the later tick's motion estimate reads are exactly the centers of
\* all raw detections of the earlier tick, in detector order; after a
\* reset they are empty.  The state holds the centers of the latest tick
\* of the session, or none after a reset: a tick reads what the state
\* holds when it runs.
C21_PreviousCentersFromLastTick ==
    LastTick => last.snap.previousCenters = last.pre.previousCenters

\* C22: the motion estimate pairs the first min(len(previous),
\* len(current)) centers by position and returns, per axis, the average of
\* current minus previous over those pairs; it returns (0, 0) whenever the
\* previous or the current list is empty.
C22_MotionEstimate ==
    Returned("avgShift") =>
        LET prev == last.prev
            cur == last.cur
            n == IF Len(prev) <= Len(cur) THEN Len(prev) ELSE Len(cur)
            dx == [i \in 1..n |-> cur[i].x - prev[i].x]
            dy == [i \in 1..n |-> cur[i].y - prev[i].y]
        IN  /\ (prev = <<>> \/ cur = <<>>) => last.value = [x |-> 0, y |-> 0]
            /\ n > 0 => /\ last.value.x * n = Sum(dx, n)
                        /\ last.value.y * n = Sum(dy, n)

C22_Witness ==
    /\ Returned("avgShift")
    /\ Len(last.prev) = 2
    /\ Len(last.cur) = 2
    /\ last.cur[1].x - last.prev[1].x # last.cur[2].x - last.prev[2].x
    /\ last.value.x # 0

\* C23: for every detection and every estimated shift, the occlusion test
\* and the duplicate test use the raw box minus the shift, while the crop
\* event and the appended occlusion region use the shift added back, that
\* is the raw detector box (the region before its padding); the tracked
\* object stores the shift-corrected box.
Raw(i) == Predictions[i].bbox

Corrected(i) ==
    <<Raw(i)[1] - last.result.shift.x, Raw(i)[2] - last.result.shift.y,
      Raw(i)[3], Raw(i)[4]>>

Padding == IF last.kind = "video" THEN VIDEO_PADDING ELSE 0

C23_ShiftAddedBack ==
    LastTick =>
        /\ last.result.shift
               = avgShift(last.snap.previousCenters, currentCentersOf(Predictions))
        /\ \A i \in Dets :
               /\ Outcomes[i].kind = "masked"
                      <=> \E k \in 1..Len(ReadRegions) : Covers(ReadRegions[k], Corrected(i))
               /\ IsDuplicate(i) =>
                      /\ IouAbove(Corrected(i), LiveTracked[Outcomes[i].matched])
                      /\ Outcomes[i].obj[1].bbox = Corrected(i)
               /\ IsNew(i) =>
                      /\ \A m \in 1..Len(LiveTracked) :
                             LiveTracked[m].className = Predictions[i].class
                                 /\ IouAbove(Corrected(i), LiveTracked[m])
                                 => Abs(Predictions[i].score - LiveTracked[m].score)
                                        >= CONFIDENCE_THRESHOLD
                      /\ <<Outcomes[i].crop[1].x, Outcomes[i].crop[1].y,
                            Outcomes[i].crop[1].width, Outcomes[i].crop[1].height>>
                             = Raw(i)
                      /\ Outcomes[i].region[1].x = Max(0, Raw(i)[1] - Padding)
                      /\ Outcomes[i].region[1].y = Max(0, Raw(i)[2] - Padding)
                      /\ Outcomes[i].region[1].width = Raw(i)[3] + 2 * Padding
                      /\ Outcomes[i].region[1].height = Raw(i)[4] + 2 * Padding
                      /\ Outcomes[i].obj[1].bbox = Corrected(i)

\* A tick with a shift other than (0, 0) confirms a new object whose raw
\* box would have matched a tracked object.
C23_Witness ==
    /\ LastTick
    /\ last.result.shift # [x |-> 0, y |-> 0]
    /\ \E i \in Dets :
           /\ IsNew(i)
           /\ Corrected(i) # Raw(i)
           /\ \E m \in 1..Len(LiveTracked) :
                  /\ LiveTracked[m].className = Predictions[i].class
                  /\ IouAbove(Raw(i), LiveTracked[m])
                  /\ Abs(Predictions[i].score - LiveTracked[m].score)
                         < CONFIDENCE_THRESHOLD

\* C24: the visible set handed to the renderer in a tick is exactly the
\* raw detections that the occlusion map as updated by this same tick does
\* not occlude, the regions appended for the objects confirmed New in the
\* tick included; all other detections are suppressed.
UpdatedMap == maskedRegions

VisibleByUpdatedMap ==
    SelectSeq(Predictions,
              LAMBDA pred : ~\E k \in 1..Len(UpdatedMap) :
                                 Covers(UpdatedMap[k], pred.bbox))

C24_VisibleSet ==
    LastTick => last.drawRect = << VisibleByUpdatedMap >>

\* C25: between two resets the occlusion map only grows by appending.  In
\* every step that is not a reset the earlier sequence of regions is a
\* prefix of the new one: no region is removed, changed or merged, and the
\* expiry of a tracked object removes none.
IsPrefix(s, t) == Len(s) <= Len(t) /\ SubSeq(t, 1, Len(s)) = s

C25_AppendOnly ==
    [][last'.op # "reset" => IsPrefix(maskedRegions, maskedRegions')]_vars

\* A tick drops an expired object from the tracker and leaves the regions
\* it found in place.
C25_Witness ==
    /\ LastTick
    /\ last.pre.maskedRegions # <<>>
    /\ IsPrefix(last.pre.maskedRegions, maskedRegions)
    /\ \E m \in 1..Len(last.pre.trackedObjects) :
           /\ last.time - last.pre.trackedObjects[m].lastSeen >= TEMPORAL_THRESHOLD
           /\ \E h \in 1..Len(last.snap.trackedObjects) :
                  last.snap.trackedObjects[h] = last.pre.trackedObjects[m]
           /\ \A k \in 1..Len(trackedObjects) :
                  trackedObjects[k].id # last.pre.trackedObjects[m].id

\* C26: on the video and on the webcam stream the region appended for a
\* new object with raw box (x, y, w, h) is that box expanded by 30 px on
\* every side and clamped to non-negative coordinates: left = max(0, x - 30),
\* top = max(0, y - 30), right edge = x + w + 30, bottom edge = y + h + 30.
C26_PaddedRegion ==
    LastTick =>
        \A i \in Dets :
            IsNew(i) =>
                LET region == Outcomes[i].region[1]
                IN  /\ region.x = Max(0, Raw(i)[1] - VIDEO_PADDING)
                    /\ region.y = Max(0, Raw(i)[2] - VIDEO_PADDING)
                    /\ region.x + region.width = Raw(i)[1] + Raw(i)[3] + VIDEO_PADDING
                    /\ region.y + region.height = Raw(i)[2] + Raw(i)[4] + VIDEO_PADDING

\* C27: a detection is occluded exactly when the overlap area of some
\* stored region with the detection box is strictly greater than the
\* threshold times the area of the detection box: 10% in the tracking
\* pipeline, 30% in the mask-only pipeline.  The ratio is taken against the
\* detection box: a box of positive area that lies inside a region is
\* occluded, while a box that contains a small region need not be.
OverlapOf(box, region) ==
    LET w == Min(box[1] + box[3], region.x + region.width) - Max(box[1], region.x)
        h == Min(box[2] + box[4], region.y + region.height) - Max(box[2], region.y)
    IN  IF w > 0 /\ h > 0 THEN w * h ELSE 0

AreaOf(box) == box[3] * box[4]

Inside(box, region) ==
    /\ region.x <= box[1] /\ box[1] + box[3] <= region.x + region.width
    /\ region.y <= box[2] /\ box[2] + box[4] <= region.y + region.height

OccludedAbove(box, regions, percent) ==
    \E k \in 1..Len(regions) : OverlapOf(box, regions[k]) * 100 > percent * AreaOf(box)

C27_OcclusionThreshold ==
    /\ Returned("isMasked") =>
           /\ last.value <=> OccludedAbove(last.box, last.regions, 10)
           /\ (AreaOf(last.box) > 0
                   /\ \E k \in 1..Len(last.regions) : Inside(last.box, last.regions[k]))
                  => last.value
    /\ Returned("isMaskedMaskOnly") =>
           /\ last.value <=> OccludedAbove(last.box, last.regions, 30)
           /\ (AreaOf(last.box) > 0
                   /\ \E k \in 1..Len(last.regions) : Inside(last.box, last.regions[k]))
                  => last.value

\* A large box that contains a small region is not occluded.
C27_Witness ==
    /\ Returned("isMasked")
    /\ ~last.value
    /\ \E k \in 1..Len(last.regions) :
           /\ last.regions[k].width * last.regions[k].height > 0
           /\ Inside(<<last.regions[k].x, last.regions[k].y,
                       last.regions[k].width, last.regions[k].height>>,
                     Region(last.box))

\* C28: the id given to a newly confirmed object is one more than the
\* largest id the tracker holds at that moment, the objects confirmed or
\* refreshed earlier in the same tick counted, and 1 when the tracker holds
\* none.
IdsHeldBefore(j) ==
    {Held[m].id : m \in 1..Len(Held)}
        \cup {Outcomes[i].obj[1].id : i \in {k \in 1..(j - 1) : Outcomes[k].obj # <<>>}}

C28_NextId ==
    LastTick =>
        \A j \in Dets :
            IsNew(j) =>
                Outcomes[j].obj[1].id
                    = IF IdsHeldBefore(j) = {} THEN 1 ELSE MaxOf(IdsHeldBefore(j)) + 1

\* C29: calculateIoU returns 0 whenever the union area of the two boxes is
\* 0 and never divides by zero; for all boxes with non-negative width and
\* height its result is a number in [0, 1].  (The result is the pair
\* <<numerator, denominator>> of the division that is performed.)
UnionAreaOf(box1, box2) ==
    AreaOf(box1) + AreaOf(box2) - OverlapOf(box1, Region(box2))

IsNumber(q) == q[2] # 0
EqualsZero(q) == IsNumber(q) /\ q[1] = 0
EqualsOne(q) == IsNumber(q) /\ q[1] = q[2]

InUnitInterval(q) ==
    /\ IsNumber(q)
    /\ IF q[2] > 0 THEN 0 <= q[1] /\ q[1] <= q[2]
                   ELSE 0 >= q[1] /\ q[1] >= q[2]

C29_IoUZeroUnion ==
    Returned("calculateIoU") =>
        /\ UnionAreaOf(last.box1, last.box2) = 0 => EqualsZero(last.value)
        /\ IsNumber(last.value)
        /\ InUnitInterval(last.value)

\* C30: for every box with positive width and height calculateIoU(box, box)
\* equals 1, and for every pair of disjoint boxes, boxes that only touch
\* along an edge or at a corner included, calculateIoU equals 0.  Two boxes
\* are disjoint when they have no point in common, and they only touch when
\* they have points in common but no area, one of them at least being a box
\* with an area.
Apart(box1, box2) ==
    \/ box1[1] + box1[3] < box2[1]
    \/ box2[1] + box2[3] < box1[1]
    \/ box1[2] + box1[4] < box2[2]
    \/ box2[2] + box2[4] < box1[2]

OnlyTouch(box1, box2) ==
    /\ ~Apart(box1, box2)
    /\ OverlapOf(box1, Region(box2)) = 0
    /\ AreaOf(box1) > 0 \/ AreaOf(box2) > 0

AgeAt(obj, currentTime) == currentTime - obj.lastSeen

Entries(seq) == {seq[k] : k \in 1..Len(seq)}

InOrderOf(kept, tracked) ==
    \A a, b \in 1..Len(kept) :
        a < b => \E k, l \in 1..Len(tracked) :
                     k < l /\ tracked[k] = kept[a] /\ tracked[l] = kept[b]

C31_ExpiryAtThreshold ==
    Returned("trackedObjectsFiltered") =>
        /\ \A obj \in Entries(last.tracked) :
               /\ AgeAt(obj, last.currentTime) >= TEMPORAL_THRESHOLD
                      => obj \notin Entries(last.value)
               /\ AgeAt(obj, last.currentTime) = TEMPORAL_THRESHOLD
                      => obj \notin Entries(last.value)
               /\ AgeAt(obj, last.currentTime) = TEMPORAL_THRESHOLD - 1
                      => obj \in Entries(last.value)
               /\ AgeAt(obj, last.currentTime) < TEMPORAL_THRESHOLD
                      => obj \in Entries(last.value)
        /\ Entries(last.value) \subseteq Entries(last.tracked)
        /\ Len(last.value) = Cardinality(Entries(last.value))
        /\ InOrderOf(last.value, last.tracked)

C31_Witness ==
    /\ Returned("trackedObjectsFiltered")
    /\ \E obj \in Entries(last.tracked) :
           AgeAt(obj, last.currentTime) = TEMPORAL_THRESHOLD /\ obj \notin Entries(last.value)
    /\ \E obj \in Entries(last.tracked) :
           AgeAt(obj, last.currentTime) = TEMPORAL_THRESHOLD - 1 /\ obj \in Entries(last.value)

\* C32: the tracked objects, occlusion regions and previous centers that a
\* tick reads are those left by the most recently completed tick or reset
\* of the session: an object confirmed or refreshed in tick n is in the
\* tracker that tick n+1 matches against, and a region appended in tick n
\* is in the map that tick n+1 tests against; no tick computes from an
\* older snapshot.
SnapshotRead ==
    <<last.snap.trackedObjects, last.snap.maskedRegions, last.snap.previousCenters>>

StateLeft ==
    <<last.pre.trackedObjects, last.pre.maskedRegions, last.pre.previousCenters>>

C32_FreshSnapshot == LastTick => SnapshotRead = StateLeft

\* C33: a tick's state updates are all-or-nothing.  Each occlusion region
\* that a tick adds corresponds to one crop event and one confirmed tracked
\* object of the same tick, also when the tick fails part-way (cropping a
\* later detection of the tick throws).
Added(after, before) == SubSeq(after, Len(before) + 1, Len(after))

RegionsAdded == Added(maskedRegions, last.pre.maskedRegions)
CropsAdded == Added(croppedObjects, last.pre.croppedObjects)

ConfirmedFor(crop) ==
    \E k \in 1..Len(trackedObjects) :
        /\ trackedObjects[k].lastSeen = last.time
        /\ trackedObjects[k].className = crop.className
        /\ trackedObjects[k].score = crop.score
        /\ trackedObjects[k].bbox[3] = crop.width
        /\ trackedObjects[k].bbox[4] = crop.height

C33_AllOrNothing ==
    LastTick =>
        /\ Len(RegionsAdded) = Len(CropsAdded)
        /\ \A k \in 1..Len(RegionsAdded) :
               /\ k <= Len(CropsAdded)
               /\ RegionsAdded[k].width = CropsAdded[k].width + 2 * Padding
               /\ RegionsAdded[k].height = CropsAdded[k].height + 2 * Padding
               /\ ConfirmedFor(CropsAdded[k])

\* C34: refreshing a tracked object updates it in place.  The refreshed
\* entry keeps its position in the tracker's order relative to the other
\* entries: two objects that a tick reads from the tracker and that are
\* both in the tracker it computes are there in the order they had.
TrackerComputed == last.result.trackedObjects

SameRelativeOrder(before, after) ==
    \A p, q \in 1..Len(before) :
        (p < q /\ before[p].id # before[q].id) =>
            \A k, l \in 1..Len(after) :
                (after[k].id = before[p].id /\ after[l].id = before[q].id) => k < l

C34_RefreshInPlace ==
    (LastTick /\ ~last.result.threw) => SameRelativeOrder(Held, TrackerComputed)

\* C35: a tick leaves every tracked object that is neither expired nor
\* matched by a detection of that tick in the tracker, with its id, class,
\* bbox, score and lastSeen unchanged; objects disappear from the tracker
\* only by expiry or reset.
MatchedObjects ==
    {LiveTracked[Outcomes[i].matched] : i \in {j \in Dets : IsDuplicate(j)}}

Untouched(obj) == ~Expired(obj) /\ obj \notin MatchedObjects

C35_UntouchedUnchanged ==
    (LastTick /\ ~last.result.threw) =>
        \A m \in 1..Len(Held) :
            Untouched(Held[m]) => Held[m] \in Entries(TrackerComputed)

\* C36: a detection whose score is not above 0.6 never produces a crop
\* event, a tracked object, a refresh or an occlusion region, whatever its
\* box and the tracker state; it still contributes its center to the
\* motion estimate and to previousCenters.
NotAboveGate(i) == ~(Predictions[i].score > SCORE_GATE)

CenterOf(i) ==
    [x |-> Raw(i)[1] + Raw(i)[3] \div 2, y |-> Raw(i)[2] + Raw(i)[4] \div 2]

PairsRead == Min(Len(last.snap.previousCenters), Len(Predictions))

C36_ScoreGate ==
    LastTick =>
        /\ \A i \in Dets :
               NotAboveGate(i) =>
                   /\ ~IsNew(i) /\ ~IsDuplicate(i)
                   /\ Outcomes[i].crop = <<>>
                   /\ Outcomes[i].obj = <<>>
                   /\ Outcomes[i].region = <<>>
        /\ Len(RegionsAdded) <= Count(LAMBDA i : ~NotAboveGate(i), Dets)
        /\ Len(CropsAdded) <= Count(LAMBDA i : ~NotAboveGate(i), Dets)
        /\ Cardinality({k \in 1..Len(TrackerComputed) :
                           TrackerComputed[k] \notin Entries(LiveTracked)})
               <= Count(LAMBDA i : ~NotAboveGate(i), Dets)
        /\ previousCenters = [i \in Dets |-> CenterOf(i)]
        /\ PairsRead > 0 =>
               /\ last.result.shift.x * PairsRead
                      = Sum([i \in 1..PairsRead |->
                                CenterOf(i).x - last.snap.previousCenters[i].x], PairsRead)
               /\ last.result.shift.y * PairsRead
                      = Sum([i \in 1..PairsRead |->
                                CenterOf(i).y - last.snap.previousCenters[i].y], PairsRead)

C36_Witness ==
    /\ LastTick
    /\ \E i \in Dets :
           /\ NotAboveGate(i)
           /\ NotOccluded(i)
           /\ i <= PairsRead
           /\ CenterOf(i) # last.snap.previousCenters[i]
           /\ last.result.shift # [x |-> 0, y |-> 0]
           /\ previousCenters[i] = CenterOf(i)

\* C37: in video mode the tick loop follows playback.  If the video is
\* paused and later resumed within the same session, ticks eventually run
\* again: whenever the video of the session is playing, the detector is
\* eventually called for a frame, unless playback stops first.
Playing ==
    /\ mode = "video" /\ model = "loaded"
    /\ video.loaded /\ ~video.paused /\ ~video.ended

DetectorCalled ==
    \E i \in 1..Len(chains) : chains[i].kind = "video" /\ chains[i].pc = "awaiting"

C37_TicksFollowPlayback == Playing ~> (DetectorCalled \/ ~Playing)

====
